---- MODULE Spec2Model ----
(***************************************************************************)
(* State-machine model of src/main.py: the MandelbrotSet escape-time       *)
(* engine, the Viewport pixel lattice with its row-major generator, and    *)
(* paint().                                                                *)
(*                                                                         *)
(* Numbers.  Points of the complex plane are Gaussian integers             *)
(* [re, im]; on them z ** 2 + c and the comparison abs(z) > escape_radius  *)
(* are exact, in the model as in double precision.  The viewport geometry  *)
(* (scale, height, offset) is computed over exact rationals <<n, d>>.      *)
(* Viewports are drawn from those whose pixels fall on Gaussian integers.  *)
(* A Python number is a record [type, num, frac, den]: the value num/den   *)
(* when frac is FALSE, and some real strictly between num/den and          *)
(* (num+1)/den when frac is TRUE.  The smooth count                        *)
(* iteration + 1 - log(log(abs(z))) / log(2) is never an integer for an    *)
(* integer abs(z)^2 >= 2, so it is such an open unit interval; every       *)
(* comparison the program makes with it (int(), min, max, == 1) is decided *)
(* by that interval.                                                       *)
(***************************************************************************)
EXTENDS Integers, Sequences, FiniteSets, TLC

\* ---------------------------------------------------------------- bounds
MaxIterations == 8
MaxCoord == 2
FarCoord == 8
MaxImageWidth == 2
MaxImageHeight == 2
MaxZoom == 1
MaxPalette == 3
MaxGenerators == 2
NumWorkers == 2

\* count // 8 in paint
BandWidth == 8

\* ---------------------------------------------------------------- numbers
\* Exact rationals <<n, d>>, d > 0, not reduced: two of them are the same
\* number when RatEq holds.  Division is by a positive rational only.
RatInt(i) == <<i, 1>>
RatAdd(p, q) == <<p[1] * q[2] + q[1] * p[2], p[2] * q[2]>>
RatMul(p, q) == <<p[1] * q[1], p[2] * q[2]>>
RatDiv(p, q) == <<p[1] * q[2], p[2] * q[1]>>
RatNeg(p) == <<-p[1], p[2]>>
RatEq(p, q) == p[1] * q[2] = q[1] * p[2]
RatIsInt(p) == p[1] % p[2] = 0
RatToInt(p) == p[1] \div p[2]

\* Python values
PyNone == [type |-> "None", num |-> 0, frac |-> FALSE, den |-> 1]
PyInt(i) == [type |-> "int", num |-> i, frac |-> FALSE, den |-> 1]
PyBool(b) == [type |-> "bool", num |-> IF b THEN 1 ELSE 0, frac |-> FALSE, den |-> 1]
PyFloat(n, f, d) == [type |-> "float", num |-> n, frac |-> f, den |-> d]

\* Complex numbers with integer parts.
Complex(a, b) == [re |-> a, im |-> b]
CAdd(z, c) == Complex(z.re + c.re, z.im + c.im)
CSquare(z) == Complex(z.re * z.re - z.im * z.im, 2 * z.re * z.im)
NormSq(z) == z.re * z.re + z.im * z.im

\* ---------------------------------------------------------------- MandelbrotSet
\* abs(z) > escape_radius, the radius a rational <<n, d>> with d > 0.
Exceeds(z, radius) ==
    IF radius[1] < 0 THEN TRUE
    ELSE NormSq(z) * radius[2] * radius[2] > radius[1] * radius[1]

\* floor(log2(ln(sqrt(q)))) for an integer q = abs(z)^2 >= 2: the k with
\* e^(2^(k+1)) <= q < e^(2^(k+2)); the thresholds are the integers just
\* above e^(1/2), e, e^2, e^4, e^8 and e^16.
FloorLog2Ln(q) ==
    IF q >= 8886111 THEN 3
    ELSE IF q >= 2981 THEN 2
    ELSE IF q >= 55 THEN 1
    ELSE IF q >= 8 THEN 0
    ELSE IF q >= 3 THEN -1
    ELSE -2

Continue(z) == [kind |-> "continue", z |-> z, value |-> PyNone, error |-> "none"]
Return(v) == [kind |-> "return", z |-> Complex(0, 0), value |-> v, error |-> "none"]
Raise(e) == [kind |-> "raise", z |-> Complex(0, 0), value |-> PyNone, error |-> e]

\* Mutant of SmoothCount: a fallback value instead of the domain error.
SmoothCount_Fallback(iteration, z) ==
    IF NormSq(z) <= 1 THEN Return(PyFloat(iteration, FALSE, 1))
    ELSE Return(PyFloat(iteration - FloorLog2Ln(NormSq(z)), TRUE, 1))

\* iteration + 1 - log(log(abs(z))) / log(2): math.log raises ValueError
\* for abs(z) < 1 (log of a negative number) and for abs(z) = 1 (log(0)).
SmoothCount(iteration, z) ==
    IF NormSq(z) <= 1 THEN Raise("ValueError")
    ELSE Return(PyFloat(iteration - FloorLog2Ln(NormSq(z)), TRUE, 1))

\* Mutant of LoopBody: the non-smooth count is 1-based.
LoopBody_OneBased(ms, c, smooth, z, iteration) ==
    LET z1 == CAdd(CSquare(z), c)
        o == IF Exceeds(z1, ms.escape_radius)
             THEN IF smooth THEN SmoothCount(iteration, z1)
                  ELSE Return(PyInt(iteration + 1))
             ELSE Continue(z1)
    IN  [o EXCEPT !.z = z1]

\* One pass through the body of the for loop of escape_count; the outcome
\* carries the updated z.
LoopBody(ms, c, smooth, z, iteration) ==
    LET z1 == CAdd(CSquare(z), c)
        o == IF Exceeds(z1, ms.escape_radius)
             THEN IF smooth THEN SmoothCount(iteration, z1)
                  ELSE Return(PyInt(iteration))
             ELSE Continue(z1)
    IN  [o EXCEPT !.z = z1]

\* Mutant of RangeHasNext: one index too many.
RangeHasNext_Inclusive(i, n) == i <= n

\* range(max_iterations) still has the index i to give.
RangeHasNext(i, n) == i < n

\* escape_count as a whole: the outcome of running the loop from (z, i).
RECURSIVE RunLoop(_, _, _, _, _)
RunLoop(ms, c, smooth, z, i) ==
    IF RangeHasNext(i, ms.max_iterations)
    THEN LET o == LoopBody(ms, c, smooth, z, i)
         IN  IF o.kind = "continue" THEN RunLoop(ms, c, smooth, o.z, i + 1)
             ELSE o
    ELSE Return(PyInt(ms.max_iterations))

EscapeCount(ms, c, smooth) == RunLoop(ms, c, smooth, Complex(0, 0), 0)

\* Mutant of Clamp: min(value, 1.0) alone.
Clamp_UpperOnly(v) ==
    LET above == IF v.frac THEN v.num >= v.den ELSE v.num > v.den
    IN  IF above THEN PyFloat(1, FALSE, 1) ELSE v

\* max(0.0, min(value, 1.0))
Clamp(v) ==
    LET above == IF v.frac THEN v.num >= v.den ELSE v.num > v.den
        m == IF above THEN PyFloat(1, FALSE, 1) ELSE v
    IN  IF m.num < 0 THEN PyFloat(0, FALSE, 1) ELSE m

\* stability applied to the outcome of its escape_count call.
Stability(ms, count, clamp) ==
    IF count.kind = "raise" THEN count
    ELSE IF ms.max_iterations = 0 THEN Raise("ZeroDivisionError")
    ELSE LET n == ms.max_iterations
             value == IF n > 0 THEN PyFloat(count.value.num, count.value.frac, n)
                      ELSE IF count.value.frac
                           THEN PyFloat(-(count.value.num + 1), TRUE, -n)
                           ELSE PyFloat(-count.value.num, FALSE, -n)
         IN  Return(IF clamp THEN Clamp(value) ELSE value)

\* Mutant of EqualsOne: the count, not the ratio, compared with 1.
EqualsOne_Count(v) == ~v.frac /\ v.num = 1

\* value == 1
EqualsOne(v) == ~v.frac /\ v.num = v.den

\* __contains__ applied to the outcome of its stability call.
Contains(stab) ==
    IF stab.kind = "raise" THEN stab ELSE Return(PyBool(EqualsOne(stab.value)))

\* ---------------------------------------------------------------- Viewport
\* A viewport is [image |-> [width, height], center, width]: center a
\* Gaussian integer, width a rational.
Scale(vp) == RatDiv(vp.width, RatInt(vp.image.width))

Height(vp) == RatMul(Scale(vp), RatInt(vp.image.height))

Offset(vp) ==
    [re |-> RatAdd(RatInt(vp.center.re), RatDiv(RatNeg(vp.width), RatInt(2))),
     im |-> RatAdd(RatInt(vp.center.im), RatDiv(Height(vp), RatInt(2)))]

\* Mutant of PixelComplex: y not negated.
PixelComplex_Unflipped(vp, p) ==
    [re |-> RatAdd(RatMul(RatInt(p[1]), Scale(vp)), Offset(vp).re),
     im |-> RatAdd(RatMul(RatInt(p[2]), Scale(vp)), Offset(vp).im)]

\* Pixel.__complex__: complex(x, -y) * scale + offset, a pixel p = <<x, y>>.
PixelComplex(vp, p) ==
    [re |-> RatAdd(RatMul(RatInt(p[1]), Scale(vp)), Offset(vp).re),
     im |-> RatAdd(RatMul(RatInt(-p[2]), Scale(vp)), Offset(vp).im)]

Pixels(vp) == (0 .. vp.image.width - 1) \X (0 .. vp.image.height - 1)

\* Mutant of Resume: Pixel(self, y, x).
RECURSIVE Resume_Swapped(_, _)
Resume_Swapped(vp, g) ==
    IF g.y >= vp.image.height
    THEN [stop |-> TRUE, pixel |-> <<0, 0>>, y |-> g.y, x |-> g.x]
    ELSE IF g.x < vp.image.width
         THEN [stop |-> FALSE, pixel |-> <<g.y, g.x>>, y |-> g.y, x |-> g.x + 1]
         ELSE Resume_Swapped(vp, [y |-> g.y + 1, x |-> 0])

\* The generator of Viewport.__iter__, suspended at loop indices (y, x),
\* resumed: it yields the next Pixel or ends.
RECURSIVE Resume(_, _)
Resume(vp, g) ==
    IF g.y >= vp.image.height
    THEN [stop |-> TRUE, pixel |-> <<0, 0>>, y |-> g.y, x |-> g.x]
    ELSE IF g.x < vp.image.width
         THEN [stop |-> FALSE, pixel |-> <<g.x, g.y>>, y |-> g.y, x |-> g.x + 1]
         ELSE Resume(vp, [y |-> g.y + 1, x |-> 0])

\* ---------------------------------------------------------------- paint
\* Mutant of ToInt: math.floor.
ToInt_Floor(v) == v.num

\* int(): truncation toward zero.
ToInt(v) == IF v.frac /\ v.num < 0 THEN v.num + 1 ELSE v.num

\* The point handed to escape_count, for a viewport whose pixels lie on
\* Gaussian integers.
Point(vp, p) ==
    Complex(RatToInt(PixelComplex(vp, p).re), RatToInt(PixelComplex(vp, p).im))

\* palette[count // 8 % len(palette)], Python's index 0-based.
PaletteIndex(count, pal) == (count \div BandWidth) % Len(pal)

\* The body of paint's loop once its escape_count call has ended with the
\* outcome o: the colour to write, or the exception that leaves paint.
PaintBody(o, pal) ==
    IF o.kind = "raise" THEN [error |-> o.error, colour |-> 0]
    ELSE IF Len(pal) = 0 THEN [error |-> "ZeroDivisionError", colour |-> 0]
    ELSE [error |-> "none", colour |-> pal[PaletteIndex(ToInt(o.value), pal) + 1]]

\* The whole body of paint's loop for the pixel p.
PixelStep(ms, vp, pal, sm, p) == PaintBody(EscapeCount(ms, Point(vp, p), sm), pal)

\* Mutant of PutPixel: putpixel((y, x), value).
PutPixel_Swapped(img, p, value) ==
    IF <<p[2], p[1]>> \in DOMAIN img THEN [img EXCEPT ![<<p[2], p[1]>>] = value] ELSE img

\* Pixel.color setter: image.putpixel((x, y), value)
PutPixel(img, p, value) == [img EXCEPT ![p] = value]

\* ---------------------------------------------------------------- inputs
Budgets == {0, 1, 2, MaxIterations}
Radii == {<<0, 1>>, <<1, 2>>, <<2, 1>>}
Coordinates == (-MaxCoord .. MaxCoord) \cup {-FarCoord, FarCoord}
Points == {Complex(a, b) : a \in Coordinates, b \in Coordinates}
Centers == {Complex(0, 0), Complex(1, 0), Complex(-FarCoord, 0)}
Palette(n) == [i \in 1 .. n |-> i]
Palettes == {Palette(0), Palette(1), Palette(MaxPalette)}
Black == 0
\* image.width * scale: the viewport's width is s * image.width
Scales == {0, MaxZoom, 2 * MaxZoom, FarCoord}

\* Every pixel of the viewport maps to a Gaussian integer.
LatticeIntegral(vp) ==
    \A p \in Pixels(vp) :
        RatIsInt(PixelComplex(vp, p).re) /\ RatIsInt(PixelComplex(vp, p).im)

\* ---------------------------------------------------------------- state
VARIABLES
    pc,              \* where the program is: "new", nothing constructed;
                     \* "engine", a MandelbrotSet; "viewport", a Viewport;
                     \* "ready", both; then inside or after an operation
    mandelbrot_set,  \* the MandelbrotSet: [max_iterations, escape_radius]
    viewport,        \* the Viewport: [image |-> [width, height], center, width]
    image,           \* the pixels of viewport.image
    frame,           \* the running escape_count call and who made it: a caller
                     \* of escape_count, stability or __contains__, or paint
                     \* for the pixel frame.pixel
    result,          \* what the call returned
    error,           \* the exception that left the call or paint
    generators,      \* the generators made by iter(viewport), each with what it has
                     \* yielded so far (trace)
    args,            \* paint's arguments: [palette, smooth]
    cursor,          \* the generator behind paint's for loop, and the pixels it
                     \* has yielded so far (steps)
    pimage,          \* a second surface, painted pixel by pixel by workers
    pending          \* the pixels the workers have not painted yet

vars == <<pc, mandelbrot_set, viewport, image, frame, result, error, generators,
          args, cursor, pimage, pending>>

NoFrame == [fn |-> "none", c |-> Complex(0, 0), smooth |-> FALSE, clamp |-> FALSE,
            z |-> Complex(0, 0), iteration |-> 0, steps |-> 0, pixel |-> <<0, 0>>]
NoCursor == [y |-> 0, x |-> 0, steps |-> 0]

Init ==
    /\ pc = "new"
    /\ mandelbrot_set = [max_iterations |-> 0, escape_radius |-> <<0, 1>>]
    /\ viewport = [image |-> [width |-> 0, height |-> 0], center |-> Complex(0, 0),
                   width |-> <<0, 1>>]
    /\ image = [p \in {} |-> Black]
    /\ frame = NoFrame
    /\ result = PyNone
    /\ error = "none"
    /\ generators = <<>>
    /\ args = [palette |-> <<>>, smooth |-> FALSE]
    /\ cursor = NoCursor
    /\ pimage = [p \in {} |-> Black]
    /\ pending = {}

\* MandelbrotSet(max_iterations, escape_radius): the dataclass __init__
\* stores its arguments.
NewMandelbrotSet(mi, r) ==
    /\ pc = "new"
    /\ mandelbrot_set' = [max_iterations |-> mi, escape_radius |-> r]
    /\ pc' = "engine"
    /\ UNCHANGED <<viewport, image, frame, result, error, generators, args, cursor,
                   pimage, pending>>

\* A call of escape_count, stability or __contains__ enters the loop of
\* escape_count with z = 0.
Call(fn, c, sm, cl) ==
    /\ pc = "engine"
    /\ frame' = [fn |-> fn, c |-> c, smooth |-> sm, clamp |-> cl,
                 z |-> Complex(0, 0), iteration |-> 0, steps |-> 0, pixel |-> <<0, 0>>]
    /\ pc' = "call"
    /\ UNCHANGED <<mandelbrot_set, viewport, image, result, error, generators, args,
                   cursor, pimage, pending>>

CallEscapeCount(c, sm) == Call("escape_count", c, sm, FALSE)
CallStability(c, sm, cl) == Call("stability", c, sm, cl)
CallContains(c) == Call("contains", c, FALSE, TRUE)

\* What stability or __contains__ makes of the outcome of its
\* escape_count.
Unwind(fn, count, cl) ==
    IF fn = "escape_count" THEN count
    ELSE IF fn = "stability" THEN Stability(mandelbrot_set, count, cl)
    ELSE Contains(Stability(mandelbrot_set, count, TRUE))

\* escape_count ends with the outcome o: inside paint the loop body goes on
\* to write the pixel, or the exception leaves paint; otherwise the call
\* returns or raises.
Finish(o) ==
    IF frame.fn = "paint"
    THEN LET b == PaintBody(o, args.palette)
         IN  IF b.error = "none"
             THEN /\ image' = PutPixel(image, frame.pixel, b.colour)
                  /\ pc' = "painting"
                  /\ UNCHANGED <<result, error>>
             ELSE /\ pc' = "raised"
                  /\ error' = b.error
                  /\ UNCHANGED <<result, image>>
    ELSE LET u == Unwind(frame.fn, o, frame.clamp)
         IN  /\ pc' = IF u.kind = "raise" THEN "raised" ELSE "returned"
             /\ result' = u.value
             /\ error' = u.error
             /\ UNCHANGED image

\* One iteration of the loop of escape_count.
Iterate ==
    /\ pc = "call"
    /\ RangeHasNext(frame.iteration, mandelbrot_set.max_iterations)
    /\ LET o == LoopBody(mandelbrot_set, frame.c, frame.smooth, frame.z, frame.iteration)
       IN  IF o.kind = "continue"
           THEN /\ frame' = [frame EXCEPT !.z = o.z, !.iteration = @ + 1, !.steps = @ + 1]
                /\ UNCHANGED <<pc, result, error, image>>
           ELSE /\ frame' = [frame EXCEPT !.z = o.z, !.steps = @ + 1]
                /\ Finish(o)
    /\ UNCHANGED <<mandelbrot_set, viewport, generators, args, cursor, pimage, pending>>

\* The loop ran out: return self.max_iterations.
Exhausted ==
    /\ pc = "call"
    /\ ~RangeHasNext(frame.iteration, mandelbrot_set.max_iterations)
    /\ Finish(Return(PyInt(mandelbrot_set.max_iterations)))
    /\ UNCHANGED <<mandelbrot_set, viewport, frame, generators, args, cursor, pimage,
                   pending>>

\* Viewport(image, center, width) on a fresh iw x ih image, the width
\* s * iw: the dataclass __init__ stores its arguments.
NewViewport(iw, ih, center, s) ==
    LET vp == [image |-> [width |-> iw, height |-> ih], center |-> center,
               width |-> RatInt(s * iw)]
    IN  /\ pc \in {"new", "engine"}
        /\ LatticeIntegral(vp)
        /\ viewport' = vp
        /\ image' = [p \in Pixels(vp) |-> Black]
        /\ pc' = IF pc = "new" THEN "viewport" ELSE "ready"
        /\ UNCHANGED <<mandelbrot_set, frame, result, error, generators, args, cursor,
                       pimage, pending>>

\* iter(viewport): a new generator, suspended before its first row.
Iter ==
    /\ pc \in {"viewport", "iterating"}
    /\ Len(generators) < MaxGenerators
    /\ generators' = Append(generators, [y |-> 0, x |-> 0, done |-> FALSE, trace |-> <<>>])
    /\ pc' = "iterating"
    /\ UNCHANGED <<mandelbrot_set, viewport, image, frame, result, error, args, cursor,
                   pimage, pending>>

\* next(g) on a generator that has not ended.
GenNext(g) ==
    /\ pc = "iterating"
    /\ g \in 1 .. Len(generators)
    /\ ~generators[g].done
    /\ LET r == Resume(viewport, generators[g])
       IN  generators' = [generators EXCEPT ![g] =
               [y |-> r.y, x |-> r.x, done |-> r.stop,
                trace |-> IF r.stop THEN @.trace ELSE Append(@.trace, r.pixel)]]
    /\ UNCHANGED <<pc, mandelbrot_set, viewport, image, frame, result, error, args,
                   cursor, pimage, pending>>

\* paint(mandelbrot_set, viewport, palette, smooth) starts its for loop.
Paint(pal, sm) ==
    /\ pc = "ready"
    /\ args' = [palette |-> pal, smooth |-> sm]
    /\ cursor' = NoCursor
    /\ pc' = "painting"
    /\ UNCHANGED <<mandelbrot_set, viewport, image, frame, result, error, generators,
                   pimage, pending>>

\* The loop of paint takes the next pixel and calls
\* escape_count(complex(pixel), smooth).
PaintNext ==
    /\ pc = "painting"
    /\ ~Resume(viewport, cursor).stop
    /\ LET r == Resume(viewport, cursor)
       IN  /\ cursor' = [y |-> r.y, x |-> r.x, steps |-> cursor.steps + 1]
           /\ frame' = [fn |-> "paint", c |-> Point(viewport, r.pixel),
                        smooth |-> args.smooth, clamp |-> FALSE, z |-> Complex(0, 0),
                        iteration |-> 0, steps |-> 0, pixel |-> r.pixel]
    /\ pc' = "call"
    /\ UNCHANGED <<mandelbrot_set, viewport, image, result, error, generators, args,
                   pimage, pending>>

\* The viewport's generator ended: paint returns.
PaintReturn ==
    /\ pc = "painting"
    /\ Resume(viewport, cursor).stop
    /\ pc' = "painted"
    /\ UNCHANGED <<mandelbrot_set, viewport, image, frame, result, error, generators,
                   args, cursor, pimage, pending>>

\* The same render again on a second blank surface, its pixels shared out
\* by row among NumWorkers workers.
Owner(p) == (p[2] % NumWorkers) + 1

Dispatch ==
    /\ pc = "painted"
    /\ pimage' = [p \in Pixels(viewport) |-> Black]
    /\ pending' = Pixels(viewport)
    /\ pc' = "workers"
    /\ UNCHANGED <<mandelbrot_set, viewport, image, frame, result, error, generators,
                   args, cursor>>

\* Worker w runs the body of paint's loop for any pixel of its share.
WorkerStep(w, p) ==
    /\ pc = "workers"
    /\ p \in pending
    /\ Owner(p) = w
    /\ LET o == PixelStep(mandelbrot_set, viewport, args.palette, args.smooth, p)
       IN  /\ o.error = "none"
           /\ pimage' = PutPixel(pimage, p, o.colour)
    /\ pending' = pending \ {p}
    /\ UNCHANGED <<pc, mandelbrot_set, viewport, image, frame, result, error,
                   generators, args, cursor>>

Join ==
    /\ pc = "workers"
    /\ pending = {}
    /\ pc' = "joined"
    /\ UNCHANGED <<mandelbrot_set, viewport, image, frame, result, error, generators,
                   args, cursor, pimage, pending>>

Next ==
    \/ \E mi \in Budgets, r \in Radii : NewMandelbrotSet(mi, r)
    \/ \E c \in Points, sm \in BOOLEAN : CallEscapeCount(c, sm)
    \/ \E c \in Points, sm \in BOOLEAN, cl \in BOOLEAN : CallStability(c, sm, cl)
    \/ \E c \in Points : CallContains(c)
    \/ Iterate
    \/ Exhausted
    \/ \E iw \in 1 .. MaxImageWidth, ih \in 1 .. MaxImageHeight, center \in Centers,
          s \in Scales : NewViewport(iw, ih, center, s)
    \/ Iter
    \/ \E g \in 1 .. MaxGenerators : GenNext(g)
    \/ \E pal \in Palettes, sm \in BOOLEAN : Paint(pal, sm)
    \/ PaintNext
    \/ PaintReturn
    \/ Dispatch
    \/ \E w \in 1 .. NumWorkers, p \in Pixels(viewport) : WorkerStep(w, p)
    \/ Join

Spec == Init /\ [][Next]_vars

\* The interpreter runs a started call and a started paint to their end.
FairSpec ==
    /\ Spec
    /\ WF_vars(Iterate) /\ WF_vars(Exhausted)
    /\ WF_vars(PaintNext) /\ WF_vars(PaintReturn)

\* ---------------------------------------------------------------- properties
ValidEngine(ms) == ms.max_iterations >= 1 /\ ms.escape_radius[1] > 0

Finished == pc \in {"returned", "raised"} /\ frame.fn \in {"escape_count", "stability", "contains"}

\* z_n of the orbit z_0 = 0, z_{n+1} = z_n^2 + c.
RECURSIVE Orbit(_, _)
Orbit(c, n) == IF n = 0 THEN Complex(0, 0) ELSE CAdd(CSquare(Orbit(c, n - 1)), c)

Scenario50 == [max_iterations |-> 50, escape_radius |-> <<2, 1>>]
Scenario50AtZero == EscapeCount(Scenario50, Complex(0, 0), FALSE).value
Scenario50AtTwoTwo == EscapeCount(Scenario50, Complex(2, 2), FALSE).value

\* C1: a finished escape_count(c, smooth=False) has returned an int k in
\* 0..max_iterations such that no z_1..z_k of the orbit exceeds the radius
\* and, when k < max_iterations, z_{k+1} does; escape_count(0) is
\* max_iterations on every valid engine; and with max_iterations = 50,
\* escape_radius = 2, escape_count(0) = 50 and escape_count(2+2j) = 0.
C1_EscapeCountIsFirstEscape ==
    /\ (Finished /\ frame.fn = "escape_count" /\ ~frame.smooth) =>
          /\ pc = "returned"
          /\ result.type = "int"
          /\ result.num \in 0 .. mandelbrot_set.max_iterations
          /\ \A j \in 1 .. result.num :
                ~Exceeds(Orbit(frame.c, j), mandelbrot_set.escape_radius)
          /\ result.num < mandelbrot_set.max_iterations =>
                Exceeds(Orbit(frame.c, result.num + 1), mandelbrot_set.escape_radius)
          /\ (ValidEngine(mandelbrot_set) /\ frame.c = Complex(0, 0)) =>
                result.num = mandelbrot_set.max_iterations
    /\ Scenario50AtZero = PyInt(50)
    /\ Scenario50AtTwoTwo = PyInt(0)

\* C1 witness: a non-smooth escape_count returned an index strictly inside
\* the budget, after at least one iteration that did not escape.
C1_Witness ==
    /\ pc = "returned" /\ frame.fn = "escape_count" /\ ~frame.smooth
    /\ result.num >= 1 /\ result.num < mandelbrot_set.max_iterations

\* C2: on an engine with max_iterations >= 1 a finished `c in
\* mandelbrot_set` has returned a bool, and it is True exactly when
\* escape_count(c, smooth=False) is max_iterations.
C2_ContainsIffFullBudget ==
    (Finished /\ frame.fn = "contains" /\ mandelbrot_set.max_iterations >= 1) =>
        /\ pc = "returned"
        /\ result.type = "bool"
        /\ (result.num = 1) <=>
              (EscapeCount(mandelbrot_set, frame.c, FALSE).value
                  = PyInt(mandelbrot_set.max_iterations))

\* C2 witness: a membership test answered True for a point other than 0
\* with a budget of at least two iterations.
C2_Witness ==
    /\ pc = "returned" /\ frame.fn = "contains" /\ result.num = 1
    /\ mandelbrot_set.max_iterations >= 2 /\ ValidEngine(mandelbrot_set)
    /\ frame.c # Complex(0, 0)

\* escape_radius > 1
RadiusAboveOne(ms) == ms.escape_radius[1] > ms.escape_radius[2]

\* C8: on a valid engine (escape_radius > 1 when smooth) a finished
\* stability(c, smooth, clamp=True) has returned a float v with
\* 0.0 <= v <= 1.0.
C8_ClampedStabilityInUnitInterval ==
    (/\ Finished /\ frame.fn = "stability" /\ frame.clamp
     /\ ValidEngine(mandelbrot_set)
     /\ frame.smooth => RadiusAboveOne(mandelbrot_set)) =>
        /\ pc = "returned"
        /\ result.type = "float"
        /\ result.den >= 1
        /\ result.num >= 0
        /\ IF result.frac THEN result.num + 1 <= result.den
           ELSE result.num <= result.den

\* C8 witness: a clamped smooth stability returned 0.0 where the smooth
\* count itself is negative.
C8_Witness ==
    /\ pc = "returned" /\ frame.fn = "stability" /\ frame.clamp /\ frame.smooth
    /\ ValidEngine(mandelbrot_set) /\ RadiusAboveOne(mandelbrot_set)
    /\ EscapeCount(mandelbrot_set, frame.c, TRUE).value.num < 0
    /\ result = PyFloat(0, FALSE, 1)

\* A clamped smooth stability returned 1.0 where the ratio exceeds 1.
C8_ReachedAboveOne ==
    /\ pc = "returned" /\ frame.fn = "stability" /\ frame.clamp /\ frame.smooth
    /\ ValidEngine(mandelbrot_set) /\ RadiusAboveOne(mandelbrot_set)
    /\ EscapeCount(mandelbrot_set, frame.c, TRUE).value.num
          >= mandelbrot_set.max_iterations
    /\ EscapeCount(mandelbrot_set, frame.c, TRUE).value.frac
    /\ result = PyFloat(1, FALSE, 1)

\* ---- paint
InPixelStep == pc = "call" /\ frame.fn = "paint"
Painting == pc \in {"painting", "painted"} \/ InPixelStep
PaintRaised == pc = "raised" /\ frame.fn = "paint"

\* The pixels the generator behind paint's loop has yielded so far.
Visited == {p \in Pixels(viewport) :
              p[2] < cursor.y \/ (p[2] = cursor.y /\ p[1] < cursor.x)}

\* The pixels whose step has ended with a write.
Written == IF InPixelStep \/ PaintRaised THEN Visited \ {frame.pixel} ELSE Visited

Floor(v) == v.num
Trunc(v) == IF v.num >= 0 THEN v.num ELSE IF v.frac THEN v.num + 1 ELSE v.num

CountAt(p) == EscapeCount(mandelbrot_set, Point(viewport, p), args.smooth).value

\* The configuration paint runs on is valid: max_iterations >= 1,
\* escape_radius > 0 and > 1 when smooth, viewport width > 0, palette not
\* empty.
ValidConfiguration ==
    /\ ValidEngine(mandelbrot_set)
    /\ args.smooth => RadiusAboveOne(mandelbrot_set)
    /\ viewport.width[1] > 0
    /\ Len(args.palette) >= 1

\* C3 as claimed, on valid configurations: every pixel paint has written
\* holds palette[floor(count) // 8 mod len(palette)].
C3_FloorBandIndex ==
    ((Painting \/ PaintRaised) /\ ValidConfiguration) =>
        \A p \in Written :
            image[p] = args.palette[((Floor(CountAt(p)) \div 8) % Len(args.palette)) + 1]

\* C3 amended: every pixel paint has written holds
\* palette[int(count) // 8 mod len(palette)], int() rounding toward zero;
\* the index is within 0..len(palette)-1; and with a palette of length 16
\* a count of 130 selects index 0.
C3_TruncBandIndex ==
    /\ (Painting \/ PaintRaised) =>
          \A p \in Written :
              LET i == (Trunc(CountAt(p)) \div 8) % Len(args.palette)
              IN  /\ i \in 0 .. Len(args.palette) - 1
                  /\ image[p] = args.palette[i + 1]
    /\ PaletteIndex(130, Palette(16)) = 0

\* C3 witness: paint has returned from an image in which a smooth count
\* between -1 and 0 and a count of at least 8 were both coloured, with a
\* palette of more than one colour.
C3_Witness ==
    /\ pc = "painted" /\ args.smooth /\ Len(args.palette) > 1
    /\ ValidConfiguration
    /\ \E p \in Pixels(viewport) : CountAt(p).num = -1 /\ CountAt(p).frac
    /\ \E p \in Pixels(viewport) : CountAt(p).num >= 8

\* ---- Viewport.__iter__
RowMajor(vp) ==
    [k \in 1 .. vp.image.width * vp.image.height |->
        <<(k - 1) % vp.image.width, (k - 1) \div vp.image.width>>]

IsPrefix(s, t) == Len(s) <= Len(t) /\ \A k \in 1 .. Len(s) : s[k] = t[k]

\* C4: what each generator of iter(viewport) has yielded is a prefix of the
\* row-major sequence of the image's pixels, whatever the other generators
\* have done; a generator that has ended has yielded the whole sequence,
\* every pixel exactly once, and one that has yielded the whole sequence
\* yields nothing more.
C4_RowMajorRestartable ==
    \A g \in 1 .. Len(generators) :
        /\ IsPrefix(generators[g].trace, RowMajor(viewport))
        /\ generators[g].done =>
              /\ generators[g].trace = RowMajor(viewport)
              /\ \A p \in Pixels(viewport) :
                    Cardinality({k \in 1 .. Len(generators[g].trace) :
                                    generators[g].trace[k] = p}) = 1

\* C4 witness: on an image of at least 2 x 2 pixels, a later generator has
\* ended after yielding every pixel while an earlier one is partly
\* consumed, in the middle of the second row.
C4_Witness ==
    /\ Len(generators) >= 2
    /\ viewport.image.width >= 2 /\ viewport.image.height >= 2
    /\ generators[2].done
    /\ Len(generators[2].trace) = viewport.image.width * viewport.image.height
    /\ ~generators[1].done
    /\ Len(generators[1].trace) = viewport.image.width + 1

\* ---- Viewport geometry
ViewportBuilt == pc \in {"viewport", "ready", "iterating"} \/ Painting \/ PaintRaised

Scenario4x4 == [image |-> [width |-> 4, height |-> 4], center |-> Complex(0, 0),
                width |-> RatInt(4)]
Scenario4x4First == PixelComplex(Scenario4x4, <<0, 0>>)
Scenario4x4Last == PixelComplex(Scenario4x4, <<3, 3>>)

\* The rational q equals a / b.
RatIs(q, a, b) == q[2] # 0 /\ b # 0 /\ q[1] * b = a * q[2]

\* C5: with W = width, w and h the image's width and height in pixels and
\* c the center, scale = W / w, height = W * h / w,
\* offset = (c.re - W/2) + (c.im + W*h/(2w)) i, and the pixel (x, y) maps to
\* (c.re - W/2 + x*W/w) + (c.im + W*h/(2w) - y*W/w) i; for a 4 x 4 image
\* with center 0 and width 4, scale = 1, pixel (0, 0) maps to -2+2i and
\* pixel (3, 3) to 1-1i.
C5_PixelToComplex ==
    /\ ViewportBuilt =>
          LET W == viewport.width[1]
              D == viewport.width[2]
              w == viewport.image.width
              h == viewport.image.height
              c == viewport.center
          IN  /\ RatIs(Scale(viewport), W, D * w)
              /\ RatIs(Height(viewport), W * h, D * w)
              /\ RatIs(Offset(viewport).re, 2 * D * c.re - W, 2 * D)
              /\ RatIs(Offset(viewport).im, 2 * D * w * c.im + W * h, 2 * D * w)
              /\ \A p \in Pixels(viewport) :
                    /\ RatIs(PixelComplex(viewport, p).re,
                             2 * D * w * c.re - W * w + 2 * p[1] * W, 2 * D * w)
                    /\ RatIs(PixelComplex(viewport, p).im,
                             2 * D * w * c.im + W * h - 2 * p[2] * W, 2 * D * w)
    /\ RatIs(Scale(Scenario4x4), 1, 1)
    /\ RatIs(Scenario4x4First.re, -2, 1)
    /\ RatIs(Scenario4x4First.im, 2, 1)
    /\ RatIs(Scenario4x4Last.re, 1, 1)
    /\ RatIs(Scenario4x4Last.im, -1, 1)

\* C5 witness: a 2 x 2 viewport off the origin with a positive width, whose
\* last pixel maps to a point below the pixel above it and to the right of
\* the pixel on its left.
C5_Witness ==
    /\ pc = "viewport"
    /\ viewport.image.width = 2 /\ viewport.image.height = 2
    /\ viewport.center # Complex(0, 0) /\ viewport.width[1] > 0
    /\ Point(viewport, <<1, 1>>).im < Point(viewport, <<1, 0>>).im
    /\ Point(viewport, <<1, 1>>).re > Point(viewport, <<0, 1>>).re

\* ---- configuration errors
\* C6, its second half: no call and no render ends in a failure that an
\* invalid configuration causes (a division by max_iterations = 0 or by
\* len(palette) = 0); the invalid configuration was rejected when the
\* engine was constructed or paint was set up.
C6_InvalidConfigurationNeverFailsLater ==
    ~(pc = "raised" /\ error = "ZeroDivisionError")

\* ---- the domain error of smoothing
\* C7: a finished smooth escape_count has raised ValueError exactly when
\* its last iteration detected divergence at a z with abs(z) <= 1; no call
\* and no paint raises ValueError when escape_radius > 1; and a paint that
\* raised ValueError stopped at the pixel whose smooth count raises: every
\* pixel before it is painted and has a count, the pixel itself and every
\* pixel after it are still blank, and no further step is taken.
C7_DomainErrorPropagates ==
    /\ (Finished /\ frame.fn = "escape_count" /\ frame.smooth) =>
          ((pc = "raised" /\ error = "ValueError") <=>
              /\ frame.steps >= 1
              /\ Exceeds(frame.z, mandelbrot_set.escape_radius)
              /\ NormSq(frame.z) <= 1)
    /\ (error = "ValueError") => ~RadiusAboveOne(mandelbrot_set)
    /\ (PaintRaised /\ error = "ValueError") =>
          /\ args.smooth
          /\ frame.pixel \in Visited
          /\ EscapeCount(mandelbrot_set, Point(viewport, frame.pixel), TRUE).kind = "raise"
          /\ \A p \in Written :
                /\ EscapeCount(mandelbrot_set, Point(viewport, p), TRUE).kind = "return"
                /\ image[p] # Black
          /\ \A p \in Pixels(viewport) \ Written : image[p] = Black
          /\ cursor.steps = Cardinality(Written) + 1
          /\ ~ENABLED Next
    /\ (Painting /\ args.smooth) =>
          \A p \in Written :
              EscapeCount(mandelbrot_set, Point(viewport, p), TRUE).kind = "return"

\* C7 witness: paint raised ValueError at a pixel that is neither the first
\* nor the last of the image.
C7_Witness ==
    /\ PaintRaised /\ error = "ValueError"
    /\ Cardinality(Written) >= 1
    /\ Cardinality(Pixels(viewport) \ Visited) >= 1

\* ---- independence of the pixel steps
\* A step of paint's loop changes at most the cell of the pixel the loop
\* is at, and nothing of the engine, the viewport, the arguments or the
\* other surface.
PaintStepFrame ==
    (pc = "painting" \/ InPixelStep) =>
        /\ \A p \in Pixels(viewport) :
              image'[p] # image[p] => InPixelStep /\ p = frame.pixel
        /\ mandelbrot_set' = mandelbrot_set /\ viewport' = viewport
        /\ args' = args /\ pimage' = pimage

\* A worker's step changes at most the cell of the pixel it takes.
WorkerStepFrame ==
    pc = "workers" =>
        /\ \A p \in Pixels(viewport) :
              pimage'[p] # pimage[p] => pending \ pending' = {p}
        /\ mandelbrot_set' = mandelbrot_set /\ viewport' = viewport
        /\ args' = args /\ image' = image

\* C9: every pixel step, of paint's loop or of a worker, changes only the
\* cell of its own pixel and leaves the engine, the viewport and the
\* palette as they were; and once the workers, each taking the pixels of
\* its share in any order, have painted every pixel, their surface equals
\* the image the sequential row-major paint produced.
C9_PixelStepsIndependent ==
    /\ [][PaintStepFrame /\ WorkerStepFrame]_vars
    /\ [](pc = "joined" => pimage = image)

\* C9 witness: the workers have finished a 2 x 2 image whose pixels do not
\* all have the same colour.
C9_Witness ==
    /\ pc = "joined"
    /\ viewport.image.width = 2 /\ viewport.image.height = 2
    /\ \E p, q \in Pixels(viewport) : pimage[p] # pimage[q]

\* ---- termination
\* C10: a call never runs the loop body of escape_count more than
\* max_iterations times, and a started call ends (returns or raises); a
\* started paint ends, and when it returns it has run exactly
\* width * height pixel steps.
C10_Terminates ==
    /\ [](frame.steps <= mandelbrot_set.max_iterations)
    /\ (pc = "call" /\ frame.fn # "paint") ~> (pc \in {"returned", "raised"})
    /\ (pc = "painting" \/ InPixelStep) ~> (pc \in {"painted", "raised"})
    /\ [](pc = "painted" =>
            cursor.steps = viewport.image.width * viewport.image.height)

\* C10 witness: paint returned from a 2 x 2 image with a budget of
\* MaxIterations that some pixel used up.
C10_Witness ==
    /\ pc = "painted"
    /\ cursor.steps = 4
    /\ mandelbrot_set.max_iterations = MaxIterations
    /\ \E p \in Pixels(viewport) : CountAt(p) = PyInt(MaxIterations)

\* A smooth call used its whole budget of MaxIterations loop iterations.
C10_FullBudgetCall ==
    /\ pc = "returned" /\ frame.smooth /\ frame.fn = "escape_count"
    /\ frame.steps = MaxIterations

====
